---- MODULE Spec2Model ----
(***************************************************************************)
(* A model of Zoey, a client-side WebSocket implementation:                *)
(*   framing.py   - the frame codec, Message and the control frames        *)
(*   handshake.py - the HTTP Upgrade request and its verification          *)
(*   chain.py     - extensions and the fragmentation assembler             *)
(*   client.py    - the connection and its status                          *)
(*                                                                         *)
(* Bytes are the integers 0..255, byte strings are sequences of bytes, a   *)
(* Python str is a sequence of code points.  An absent value (None) of a   *)
(* field that otherwise holds a sequence or a record is the empty          *)
(* sequence, and a present record r is the one-element sequence <<r>>.     *)
(***************************************************************************)
EXTENDS Integers, Sequences, FiniteSets, TLC

VARIABLES
    \* ---- the connection (client.py, chain.py) ----
    extensions,     \* Client.extensions: the registered extensions, in order
    is_secure,      \* Client.is_secure: the scheme is wss
    status,         \* Client.status
    socket,         \* the transport: "unconnected", "open" or "closed"
    wire,           \* everything written with socket.send, in order
    last_frame,     \* WSConstructor.last_frame
    frame_setup,    \* WSConstructor.frame_setup
    close_reason,   \* Client.close_reason
    events,         \* the callbacks invoked so far, in order
    greenlets,      \* one per spawn of WSConstructor.start: its polling loop and
                    \* the collect_frames greenlet it spawned
    received,       \* the frames Frame.load has handed to recv_frame, in order
    calls,          \* how many connect() and close() calls the caller has made
    last,           \* the last operation: what it was, what it saw, how it ended
    \* ---- the pure functions exercised on their own ----
    pc,             \* which function is being exercised, and how far it got
    arg,            \* its input
    res             \* its result

connVars == <<extensions, is_secure, status, socket, wire, last_frame, frame_setup,
              close_reason, events, greenlets, received, calls, last>>

pureVars == <<pc, arg, res>>

vars == <<connVars, pureVars>>

Min(a, b) == IF a <= b THEN a ELSE b

Bit(n, k) == (n \div (2 ^ k)) % 2

XorBits(a, b) ==
    LET x(k) == IF Bit(a, k) # Bit(b, k) THEN 2 ^ k ELSE 0
    IN  x(0) + x(1) + x(2) + x(3) + x(4) + x(5) + x(6) + x(7)

\* Python's ^ on bytes, tabulated once
XorTable == [a \in 0..255 |-> [b \in 0..255 |-> XorBits(a, b)]]

Xor(a, b) == XorTable[a][b]

\* no exception: the call returned
NoExc == "none"

(***************************************************************************)
(* framing.py: struct, the opcodes                                          *)
(***************************************************************************)

\* struct.calcsize of the three formats the code uses
calcsize(fmt) ==
    CASE fmt = "!B" -> 1
      [] fmt = "!H" -> 2
      [] fmt = "!Q" -> 8

RECURSIVE BigEndian(_, _)
\* the n-byte big-endian representation of v
BigEndian(v, n) == IF n = 0 THEN <<>> ELSE Append(BigEndian(v \div 256, n - 1), v % 256)

RECURSIVE FromBigEndian(_)
FromBigEndian(bytes) ==
    IF bytes = <<>> THEN 0
    ELSE 256 * FromBigEndian(SubSeq(bytes, 1, Len(bytes) - 1)) + bytes[Len(bytes)]

\* struct.pack(fmt, v) for one unsigned value
pack(fmt, v) == BigEndian(v, calcsize(fmt))

\* struct.unpack(fmt, data): a 1-tuple holding the value, or struct.error when
\* data has not exactly calcsize(fmt) bytes
unpack(fmt, data) ==
    IF Len(data) = calcsize(fmt)
    THEN [exc |-> NoExc, value |-> <<FromBigEndian(data)>>]
    ELSE [exc |-> "struct.error", value |-> <<>>]

\* stream.read(n): at most n bytes from the front of the stream
read(stream, n) ==
    LET k == Min(n, Len(stream.data))
    IN  [data |-> SubSeq(stream.data, 1, k),
         stream |-> [stream EXCEPT !.data = SubSeq(stream.data, k + 1, Len(stream.data))]]

unpack_from(fmt, stream) ==
    IF stream.closed
    THEN [exc |-> "InterruptedError", value |-> <<>>, stream |-> stream]
    ELSE LET r == read(stream, calcsize(fmt))
             u == unpack(fmt, r.data)
         IN  [exc |-> u.exc, value |-> u.value, stream |-> r.stream]

\* the members of FrameOpcode that carry a number
Opcodes == {"CONTINUATION", "TEXT", "BINARY", "CLOSE", "PING", "PONG"}

\* FrameOpcode.<member>.value
OpcodeValue(op) ==
    CASE op = "CONTINUATION" -> 0
      [] op = "TEXT" -> 1
      [] op = "BINARY" -> 2
      [] op = "CLOSE" -> 8
      [] op = "PING" -> 9
      [] op = "PONG" -> 10

\* FrameOpcode.from_value: the member with that value, or None (RESERVED, whose
\* value is None, matches no number)
from_value(value) ==
    IF \E op \in Opcodes : OpcodeValue(op) = value
    THEN CHOOSE op \in Opcodes : OpcodeValue(op) = value
    ELSE "None"

(***************************************************************************)
(* framing.py: Frame                                                        *)
(***************************************************************************)

\* Frame.__init__; mask = <<>> is mask=None
Frame(final, rsvs, opcode, payload, mask) ==
    [final |-> final, rsvs |-> rsvs, opcode |-> opcode, payload |-> payload, mask |-> mask]

\* a masking that adds the key bytes instead of XOR-ing them
apply_mask_add(mask, content) ==
    <<>> \o [i \in 1..Len(content) |-> (content[i] + mask[((i - 1) % 4) + 1]) % 256]

\* Frame.apply_mask
apply_mask(mask, content) ==
    <<>> \o [i \in 1..Len(content) |-> Xor(content[i], mask[((i - 1) % 4) + 1])]

\* Frame.build
build(self) ==
    LET byte0 == (IF self.final THEN 1 ELSE 0) * 128 + self.rsvs[1] * 64
                 + self.rsvs[2] * 32 + self.rsvs[3] * 16 + OpcodeValue(self.opcode)
        payload_length == Len(self.payload)
        maskbit == IF self.mask = <<>> THEN 0 ELSE 128
        length ==
            IF payload_length <= 125 THEN pack("!B", payload_length + maskbit)
            ELSE IF payload_length <= 65535
                 THEN pack("!B", 126 + maskbit) \o pack("!H", payload_length)
                 ELSE pack("!B", 127 + maskbit) \o pack("!Q", payload_length)
    IN  pack("!B", byte0) \o length \o
        (IF self.mask # <<>> THEN self.mask \o apply_mask(self.mask, self.payload)
                             ELSE self.payload)

\* Frame.load: the frame (or the exception) and what is left of the stream
load(stream) ==
    LET h == unpack_from("!B", stream)
        fail(e, s) == [exc |-> e, frame |-> <<>>, stream |-> s]
    IN  IF h.exc # NoExc THEN fail(h.exc, h.stream) ELSE
        LET code_header == h.value[1]
            final == Bit(code_header, 7) = 1
            rsvs == <<Bit(code_header, 6), Bit(code_header, 5), Bit(code_header, 4)>>
            opcode == from_value(code_header % 16)
            m == unpack_from("!B", h.stream)
        IN  IF m.exc # NoExc THEN fail(m.exc, m.stream) ELSE
        LET mask_length == m.value[1]
            has_mask == Bit(mask_length, 7) = 1
            short == mask_length % 128
            ext == IF short = 126 THEN unpack_from("!B", m.stream)
                   ELSE IF short = 127 THEN unpack_from("!Q", m.stream)
                   ELSE [exc |-> NoExc, value |-> <<short>>, stream |-> m.stream]
        IN  IF ext.exc # NoExc THEN fail(ext.exc, ext.stream) ELSE
        LET payload_length == ext.value[1]
        IN  IF has_mask
            THEN LET mk == read(ext.stream, 4)
                     body == read(mk.stream, payload_length)
                 IN  \* mask[i % 4] on a mask cut short
                     IF Len(body.data) > Len(mk.data) /\ Len(mk.data) < 4
                     THEN fail("IndexError", body.stream)
                     ELSE [exc |-> NoExc,
                           frame |-> <<Frame(final, rsvs, opcode,
                                             apply_mask(mk.data, body.data), mk.data)>>,
                           stream |-> body.stream]
            ELSE LET body == read(ext.stream, payload_length)
                 IN  [exc |-> NoExc,
                      frame |-> <<Frame(final, rsvs, opcode, body.data, <<>>)>>,
                      stream |-> body.stream]


(***************************************************************************)
(* str and bytes                                                            *)
(***************************************************************************)

\* a UTF-8 continuation byte
IsCont(b) == b >= 128 /\ b <= 191

\* how many bytes the sequence led by b has, 0 when b leads none
Utf8Width(b) ==
    IF b < 128 THEN 1
    ELSE IF b >= 194 /\ b <= 223 THEN 2
    ELSE IF b >= 224 /\ b <= 239 THEN 3
    ELSE IF b >= 240 /\ b <= 244 THEN 4
    ELSE 0

RECURSIVE utf8_decode(_)
\* bytes.decode("utf8"): the code points, or UnicodeDecodeError
utf8_decode(bytes) ==
    IF bytes = <<>> THEN [exc |-> NoExc, value |-> <<>>] ELSE
    LET b1 == bytes[1]
        n == Utf8Width(b1)
        bad == [exc |-> "UnicodeDecodeError", value |-> <<>>]
    IN  IF n = 0 \/ Len(bytes) < n THEN bad
        ELSE IF \E i \in 2..n : ~IsCont(bytes[i]) THEN bad
        ELSE IF n >= 3 /\ (\/ (b1 = 224 /\ bytes[2] < 160)
                           \/ (b1 = 237 /\ bytes[2] > 159)
                           \/ (b1 = 240 /\ bytes[2] < 144)
                           \/ (b1 = 244 /\ bytes[2] > 143)) THEN bad
        ELSE LET cp == CASE n = 1 -> b1
                         [] n = 2 -> (b1 - 192) * 64 + (bytes[2] - 128)
                         [] n = 3 -> (b1 - 224) * 4096 + (bytes[2] - 128) * 64
                                     + (bytes[3] - 128)
                         [] n = 4 -> (b1 - 240) * 262144 + (bytes[2] - 128) * 4096
                                     + (bytes[3] - 128) * 64 + (bytes[4] - 128)
                 rest == utf8_decode(SubSeq(bytes, n + 1, Len(bytes)))
             IN  IF rest.exc # NoExc THEN rest
                 ELSE [exc |-> NoExc, value |-> <<cp>> \o rest.value]

RECURSIVE utf8_encode(_)
\* str.encode("utf8")
utf8_encode(str) ==
    IF str = <<>> THEN <<>> ELSE
    LET cp == str[1]
        head == IF cp < 128 THEN <<cp>>
                ELSE IF cp < 2048 THEN <<192 + (cp \div 64), 128 + (cp % 64)>>
                ELSE IF cp < 65536
                     THEN <<224 + (cp \div 4096), 128 + ((cp \div 64) % 64), 128 + (cp % 64)>>
                     ELSE <<240 + (cp \div 262144), 128 + ((cp \div 4096) % 64),
                            128 + ((cp \div 64) % 64), 128 + (cp % 64)>>
    IN  head \o utf8_encode(Tail(str))

\* Python values whose type the code leaves open
PyNone == [type |-> "NoneType", value |-> <<>>]
PyInt(v) == [type |-> "int", value |-> v]
PyTuple(t) == [type |-> "tuple", value |-> t]
PyStr(cps) == [type |-> "str", value |-> cps]
PyBytes(bytes) == [type |-> "bytes", value |-> bytes]

(***************************************************************************)
(* framing.py: Message and the control frames                               *)
(***************************************************************************)

RECURSIVE join(_)
\* b"".join(c.payload for c in chain)
join(chain) == IF chain = <<>> THEN <<>> ELSE Head(chain).payload \o join(Tail(chain))

\* Message.__init__: the message, or the exception decoding it raised
Message(chain) ==
    LET data_type == IF chain[1].opcode = "TEXT" THEN "str" ELSE "bytes"
        data == join(chain)
        text == utf8_decode(data)
    IN  IF data_type = "bytes"
        THEN [exc |-> NoExc, data_type |-> "bytes", data |-> PyBytes(data)]
        ELSE IF text.exc # NoExc
             THEN [exc |-> text.exc, data_type |-> "str", data |-> PyNone]
             ELSE [exc |-> NoExc, data_type |-> "str", data |-> PyStr(text.value)]

\* ControlFrame.__init__ with the load of Ping and Pong, which does nothing
ControlFrame(frame) ==
    [exc |-> NoExc, type |-> frame.opcode, raw_data |-> frame.payload,
     code |-> PyNone, reason |-> PyNone]

\* Close.__init__ and Close.load
Close(frame) ==
    LET self == ControlFrame(frame)
        raw_data == self.raw_data
        head == SubSeq(raw_data, 1, Min(2, Len(raw_data)))
    IN  IF Len(raw_data) > 2
        THEN LET reason == utf8_decode(head)
             IN  IF reason.exc # NoExc THEN [self EXCEPT !.exc = reason.exc]
                 ELSE [self EXCEPT !.code = PyTuple(unpack("!H", head).value),
                                   !.reason = PyStr(reason.value)]
        ELSE IF Len(raw_data) = 2
             THEN [self EXCEPT !.code = PyTuple(unpack("!H", raw_data).value)]
             ELSE self

\* Extension.should_set as the modelled extensions override it: an extension sets
\* the bits it claims
should_set(extension, rsv) == rsv \in extension.sets

RECURSIVE LastAnswer(_, _)
\* for extension in extensions: rsvs[i] = extension.should_set(i, cls)
LastAnswer(exts, rsv) ==
    IF exts = <<>> THEN FALSE ELSE should_set(exts[Len(exts)], rsv)

\* int() of a bool
int(b) == IF b THEN 1 ELSE 0

\* ControlFrame.build: the frame it builds, before Frame.build
ControlFrame_build(OPCODE, exts, mask, payload, urandom) ==
    Frame(TRUE,
          <<int(LastAnswer(exts, 0)), int(LastAnswer(exts, 1)), int(LastAnswer(exts, 2))>>,
          OPCODE, payload, IF mask = <<>> THEN <<>> ELSE urandom)

\* Close.build; code = 0 is falsy as None is, reason = <<>> is None or ""
Close_build(exts, mask, code, reason, urandom) ==
    LET payload == IF code # 0
                   THEN pack("!H", code) \o (IF reason # <<>> THEN utf8_encode(reason) ELSE <<>>)
                   ELSE <<>>
    IN  build(ControlFrame_build("CLOSE", exts, mask, payload, urandom))


(***************************************************************************)
(* handshake.py                                                             *)
(***************************************************************************)

\* str.lower() and str.upper() of one code point (ASCII letters; the header
\* values modelled hold nothing else that has a case)
LowerCp(c) == IF c >= 65 /\ c <= 90 THEN c + 32 ELSE c
UpperCp(c) == IF c >= 97 /\ c <= 122 THEN c - 32 ELSE c
IsCased(c) == (c >= 65 /\ c <= 90) \/ (c >= 97 /\ c <= 122)

\* str.lower()
lower(str) == [i \in 1..Len(str) |-> LowerCp(str[i])]

\* str.title(): a cased character is upper case after an uncased one or at the
\* start, lower case after a cased one
title(str) ==
    [i \in 1..Len(str) |->
        IF i > 1 /\ IsCased(str[i - 1]) THEN LowerCp(str[i]) ELSE UpperCp(str[i])]

\* "websocket"
STR_websocket == <<119, 101, 98, 115, 111, 99, 107, 101, 116>>
\* "Upgrade"
STR_Upgrade == <<85, 112, 103, 114, 97, 100, 101>>

\* two values of b64encode(os.urandom(16)).decode()
\* "dGhlIHNhbXBsZSBub25jZQ=="
KEY_1 == <<100, 71, 104, 108, 73, 72, 78, 104, 98, 88, 66, 115, 90, 83, 66, 117, 98, 50, 53, 106, 90, 81, 61, 61>>
\* "x3JJHMbDL1EzLkh9GBhXDw=="
KEY_2 == <<120, 51, 74, 74, 72, 77, 98, 68, 76, 49, 69, 122, 76, 107, 104, 57, 71, 66, 104, 88, 68, 119, 61, 61>>
Keys == {KEY_1, KEY_2}

\* b64encode(sha1(key + WS_GUID).digest()).decode() of the two keys, as hashlib
\* and base64 compute them
\* "s3pPLMBiTxaQ9kYGzzhZRbK+xOo="
ACCEPT_1 == <<115, 51, 112, 80, 76, 77, 66, 105, 84, 120, 97, 81, 57, 107, 89, 71, 122, 122, 104, 90, 82, 98, 75, 43, 120, 79, 111, 61>>
\* "HSmrc0sMlYUkAGmm5OPpG2HaGWk="
ACCEPT_2 == <<72, 83, 109, 114, 99, 48, 115, 77, 108, 89, 85, 107, 65, 71, 109, 109, 53, 79, 80, 112, 71, 50, 72, 97, 71, 87, 107, 61>>

\* WebsocketUpgrade.expecting_key
expecting_key(key) == IF key = KEY_1 THEN ACCEPT_1 ELSE ACCEPT_2

\* the response's headers are a case-insensitive mapping: it is keyed by the
\* lower-case name, and a lookup lowers the name it is given
HeaderName(name) ==
    CASE name = "Upgrade" -> "upgrade"
      [] name = "Connection" -> "connection"
      [] name = "Sec-Websocket-Accept" -> "sec-websocket-accept"

\* response.headers[name]: the value, or KeyError
getitem(headers, name) ==
    IF HeaderName(name) \in DOMAIN headers
    THEN [exc |-> NoExc, value |-> headers[HeaderName(name)]]
    ELSE [exc |-> "KeyError", value |-> <<>>]

\* the asserts of a confirm that does not compare Sec-Websocket-Accept with the
\* expected key
assertions_no_accept(key, response) ==
    LET upgrade == getitem(response.headers, "Upgrade")
        connection == getitem(response.headers, "Connection")
        accept == getitem(response.headers, "Sec-Websocket-Accept")
    IN  IF upgrade.exc # NoExc THEN upgrade.exc
        ELSE IF lower(upgrade.value) # STR_websocket THEN "AssertionError"
        ELSE IF connection.exc # NoExc THEN connection.exc
        ELSE IF title(connection.value) # STR_Upgrade THEN "AssertionError"
        ELSE IF accept.exc # NoExc THEN accept.exc
        ELSE NoExc

\* the three asserts of WebsocketUpgrade.confirm, in order: the first exception
assertions(key, response) ==
    LET upgrade == getitem(response.headers, "Upgrade")
        connection == getitem(response.headers, "Connection")
        accept == getitem(response.headers, "Sec-Websocket-Accept")
    IN  IF upgrade.exc # NoExc THEN upgrade.exc
        ELSE IF lower(upgrade.value) # STR_websocket THEN "AssertionError"
        ELSE IF connection.exc # NoExc THEN connection.exc
        ELSE IF title(connection.value) # STR_Upgrade THEN "AssertionError"
        ELSE IF accept.exc # NoExc THEN accept.exc
        ELSE IF accept.value # expecting_key(key) THEN "AssertionError"
        ELSE NoExc

\* the exceptions WebsocketUpgrade.confirm catches
Caught == {"AssertionError", "KeyError"}

\* WebsocketUpgrade.confirm: what it returns, or the exception that escapes it
confirm(key, response) ==
    LET e == assertions(key, response)
    IN  IF e = NoExc THEN [exc |-> NoExc, value |-> TRUE]
        ELSE IF e \in Caught THEN [exc |-> NoExc, value |-> FALSE]
        ELSE [exc |-> e, value |-> FALSE]

\* ServerResponse.__init__
ServerResponse(code, headers) == [code |-> code, headers |-> headers]


(***************************************************************************)
(* chain.py: extensions and the assembler's verify                          *)
(***************************************************************************)

\* an Extension subclass: the bits it claims (RSV1, RSV2, RSV3) and the
\* bits its should_set answers True for
Extension(RSV1, RSV2, RSV3) ==
    [RSV1 |-> RSV1, RSV2 |-> RSV2, RSV3 |-> RSV3,
     sets |-> {i \in 0..2 : <<RSV1, RSV2, RSV3>>[i + 1]}]

RECURSIVE ChainMap_get(_, _)
\* ChainMap(*maps).get(key): the value in the first map that has the key, None
\* (FALSE, which is as falsy) when none has it
ChainMap_get(maps, key) ==
    IF maps = <<>> THEN FALSE
    ELSE IF key \in DOMAIN Head(maps) THEN Head(maps)[key]
    ELSE ChainMap_get(Tail(maps), key)

\* the maps verify chains: one per extension, each with all three keys
rsv_maps(exts) ==
    [i \in 1..Len(exts) |-> [R1 |-> exts[i].RSV1, R2 |-> exts[i].RSV2, R3 |-> exts[i].RSV3]]

\* "Ping, Pong, or Close frames cannot be fragmented."
REASON_fragmented ==
    <<80, 105, 110, 103, 44, 32, 80, 111, 110, 103, 44, 32, 111, 114, 32, 67, 108,
      111, 115, 101, 32, 102, 114, 97, 109, 101, 115, 32, 99, 97, 110, 110, 111,
      116, 32, 98, 101, 32, 102, 114, 97, 103, 109, 101, 110, 116, 101, 100, 46>>
\* "Sent continuation after final frame."
REASON_after_final ==
    <<83, 101, 110, 116, 32, 99, 111, 110, 116, 105, 110, 117, 97, 116, 105, 111,
      110, 32, 97, 102, 116, 101, 114, 32, 102, 105, 110, 97, 108, 32, 102, 114,
      97, 109, 101, 46>>
\* "Sent continuation without initial frame."
REASON_no_initial ==
    <<83, 101, 110, 116, 32, 99, 111, 110, 116, 105, 110, 117, 97, 116, 105, 111,
      110, 32, 119, 105, 116, 104, 111, 117, 116, 32, 105, 110, 105, 116, 105, 97,
      108, 32, 102, 114, 97, 109, 101, 46>>
\* "Unknown opcode used."
REASON_opcode ==
    <<85, 110, 107, 110, 111, 119, 110, 32, 111, 112, 99, 111, 100, 101, 32, 117,
      115, 101, 100, 46>>
\* "Used frame-rsv1 without proper extension"
REASON_rsv1 ==
    <<85, 115, 101, 100, 32, 102, 114, 97, 109, 101, 45, 114, 115, 118, 49, 32,
      119, 105, 116, 104, 111, 117, 116, 32, 112, 114, 111, 112, 101, 114, 32, 101,
      120, 116, 101, 110, 115, 105, 111, 110>>
\* "Used frame-rsv2 without proper extension"
REASON_rsv2 ==
    <<85, 115, 101, 100, 32, 102, 114, 97, 109, 101, 45, 114, 115, 118, 50, 32,
      119, 105, 116, 104, 111, 117, 116, 32, 112, 114, 111, 112, 101, 114, 32, 101,
      120, 116, 101, 110, 115, 105, 111, 110>>
\* "Used frame-rsv3 without proper extension"
REASON_rsv3 ==
    <<85, 115, 101, 100, 32, 102, 114, 97, 109, 101, 45, 114, 115, 118, 51, 32,
      119, 105, 116, 104, 111, 117, 116, 32, 112, 114, 111, 112, 101, 114, 32, 101,
      120, 116, 101, 110, 115, 105, 111, 110>>

\* how `None in FrameOpcode` ends, which the Python version decides: False
\* (with a DeprecationWarning, before 3.8), TypeError (3.8 to 3.11), True (from
\* 3.12 on, None being the value of RESERVED)
Containments == {"False", "TypeError", "True"}

\* frame.opcode not in FrameOpcode
not_in_FrameOpcode(opcode, contains) ==
    IF opcode \in Opcodes THEN [exc |-> NoExc, value |-> FALSE]
    ELSE IF contains = "TypeError" THEN [exc |-> "TypeError", value |-> FALSE]
    ELSE [exc |-> NoExc, value |-> contains = "False"]

\* the checks of a verify that lets a continuation follow a final frame
sequence_reason_no_final(self, frame) ==
    IF self.last_frame # <<>>
    THEN IF frame.opcode = "CONTINUATION"
            /\ self.last_frame[1].opcode \in {"PING", "PONG", "CLOSE"}
         THEN REASON_fragmented
         ELSE <<>>
    ELSE IF frame.opcode = "CONTINUATION" THEN REASON_no_initial ELSE <<>>

\* the checks of WSConstructor.verify on the frame following last_frame
sequence_reason(self, frame) ==
    IF self.last_frame # <<>>
    THEN IF frame.opcode = "CONTINUATION"
            /\ self.last_frame[1].opcode \in {"PING", "PONG", "CLOSE"}
         THEN REASON_fragmented
         ELSE IF frame.opcode = "CONTINUATION" /\ self.last_frame[1].final
              THEN REASON_after_final
              ELSE <<>>
    ELSE IF frame.opcode = "CONTINUATION" THEN REASON_no_initial ELSE <<>>

\* the checks of WSConstructor.verify on the frame's reserved bits
rsv_reason(self, frame) ==
    LET used_rsv == rsv_maps(self.extensions)
    IN  IF ~ChainMap_get(used_rsv, "R1") /\ frame.rsvs[1] = 1 THEN REASON_rsv1
        ELSE IF ~ChainMap_get(used_rsv, "R2") /\ frame.rsvs[2] = 1 THEN REASON_rsv2
        ELSE IF ~ChainMap_get(used_rsv, "R3") /\ frame.rsvs[3] = 1 THEN REASON_rsv3
        ELSE <<>>

\* WSConstructor.verify: (good, reason), or the exception raised
verify(self, frame, contains) ==
    LET bad(reason) == [exc |-> NoExc, good |-> FALSE, reason |-> reason]
        unknown == not_in_FrameOpcode(frame.opcode, contains)
    IN  IF sequence_reason(self, frame) # <<>>
        THEN bad(sequence_reason(self, frame))
        ELSE IF unknown.exc # NoExc
        THEN [exc |-> unknown.exc, good |-> FALSE, reason |-> <<>>]
        ELSE IF unknown.value THEN bad(REASON_opcode)
        ELSE IF rsv_reason(self, frame) # <<>> THEN bad(rsv_reason(self, frame))
        ELSE [exc |-> NoExc, good |-> TRUE, reason |-> <<>>]


(***************************************************************************)
(* client.py: the connection.  The operations work on a record `self` of    *)
(* the connection's fields, with `exc` the exception being raised.          *)
(***************************************************************************)

\* bool() of a ConnectionStatus member: Enum defines no __bool__ and the class
\* mixes in no type, so every member is true, CLOSED = 0 included
truthy(member) == member \in {"CLOSED", "CONNECTING", "CONNECTED", "CLOSING"}

\* a callback invoked: who = 0 is the connection, who = i its i-th extension; arg
\* holds the argument, if the callback takes one
Event(who, name, value) == [who |-> who, name |-> name, arg |-> value]

\* Client.trigger: the callback of every extension, in registration order
trigger(self, name, value) ==
    [self EXCEPT !.events = @ \o [i \in 1..Len(self.extensions) |-> Event(i, name, value)]]

\* a callback of the connection itself (who = 0)
callback(self, name, value) == [self EXCEPT !.events = Append(@, Event(0, name, value))]

\* socket.send: on a transport that is not connected it raises OSError
socket_send(self, data) ==
    IF self.socket = "open" THEN [self EXCEPT !.wire = Append(@, data)]
    ELSE [self EXCEPT !.exc = "OSError"]

\* socket.close
socket_close(self) == [self EXCEPT !.socket = "closed"]

\* Client.send_control(Close, mask=, code=, reason=)
send_control(self, mask, code, reason, urandom) ==
    LET hooked == trigger(self, "before_control_frame", <<[cls |-> "Close"]>>)
        data == Close_build(self.extensions, mask, code, reason, urandom)
    IN  socket_send(hooked, [kind |-> "frame", data |-> data])

\* Client.close
close(self, code, reason, urandom) ==
    IF truthy("CONNECTED")
    THEN LET sent == send_control(self, IF ~self.is_secure THEN urandom ELSE <<>>,
                                  code, reason, urandom)
         IN  IF sent.exc # NoExc THEN sent ELSE [sent EXCEPT !.status = "CLOSING"]
    ELSE IF truthy("CONNECTING") THEN socket_close(self)
    ELSE IF truthy("CLOSING") THEN socket_close(self)
    ELSE [self EXCEPT !.exc = "AlreadyClosed"]

\* Client.MAX_SIZE: 2 ** 64 - 1 in the code, beyond any length a payload can
\* have; here the largest integer the model checker has, which no payload modelled
\* reaches either
MAX_SIZE == 2147483647

\* a send_message that does not split: the message as its only part
chunks_whole(msg, size) == IF msg = <<>> THEN <<>> ELSE <<msg>>

RECURSIVE chunks(_, _)
\* [msg[chunk: chunk + size] for chunk in range(0, len(msg), size)]
chunks(msg, size) ==
    IF msg = <<>> THEN <<>>
    ELSE LET k == Min(size, Len(msg))
         IN  <<SubSeq(msg, 1, k)>> \o chunks(SubSeq(msg, k + 1, Len(msg)), size)

RECURSIVE send_parts(_, _, _, _, _, _)
\* the loop of Client.send_message over msgs from its i-th part on
send_parts(self, msgs, i, rsvs, opcode, urandom) ==
    IF i > Len(msgs) THEN self
    ELSE LET frame == Frame(i = Len(msgs), rsvs, opcode, msgs[i],
                            IF ~self.is_secure THEN urandom ELSE <<>>)
             sent == socket_send(trigger(self, "before_frame", <<frame>>),
                                 [kind |-> "frame", data |-> build(frame)])
         IN  IF sent.exc # NoExc THEN sent
             ELSE send_parts(sent, msgs, i + 1, rsvs, opcode, urandom)

\* Client.send_message, with size the MAX_SIZE of the class
send_message(self, msg, size, urandom) ==
    LET is_text == msg.type = "str"
        encoded == IF is_text THEN utf8_encode(msg.value) ELSE msg.value
        msgs == chunks(encoded, size)
        rsvs == <<int(LastAnswer(self.extensions, 0)), int(LastAnswer(self.extensions, 1)),
                  int(LastAnswer(self.extensions, 2))>>
    IN  send_parts(self, msgs, 1, rsvs, IF is_text THEN "TEXT" ELSE "BINARY", urandom)

\* the default code of Client.close
DefaultCode == 1000

\* the code WSConstructor.recv_frame closes with
ProtocolError == 1002

\* Client.on_close
on_close(self, closeframe, urandom) ==
    close([self EXCEPT !.close_reason = <<closeframe>>, !.status = "CLOSING"],
          DefaultCode, <<>>, urandom)

\* WSConstructor.recv_frame on a frame verify accepted: the dispatch
dispatch(self, frame, urandom) ==
    IF frame.opcode \in {"TEXT", "BINARY"}
    THEN LET kept == [self EXCEPT !.frame_setup = Append(@, frame)]
             msg == Message(kept.frame_setup)
         IN  IF ~frame.final THEN kept
             ELSE IF msg.exc # NoExc THEN [kept EXCEPT !.exc = msg.exc]
             ELSE callback(trigger(kept, "on_message", <<msg>>), "on_message", <<msg>>)
    ELSE IF frame.opcode = "PING"
    THEN callback(trigger(self, "on_ping", <<ControlFrame(frame)>>),
                  "on_ping", <<ControlFrame(frame)>>)
    ELSE IF frame.opcode = "PONG"
    THEN callback(trigger(self, "on_pong", <<ControlFrame(frame)>>),
                  "on_pong", <<ControlFrame(frame)>>)
    ELSE LET closeframe == Close(frame)
         IN  IF closeframe.exc # NoExc THEN [self EXCEPT !.exc = closeframe.exc]
             ELSE on_close(callback(trigger(self, "on_close", <<closeframe>>),
                                    "on_close", <<closeframe>>),
                           closeframe, urandom)

\* WSConstructor.recv_frame
recv_frame(self, frame, contains, urandom) ==
    LET v == verify(self, frame, contains)
    IN  IF v.exc # NoExc THEN [self EXCEPT !.exc = v.exc]
        ELSE IF ~v.good THEN close(self, ProtocolError, v.reason, urandom)
        ELSE LET done == dispatch(self, frame, urandom)
             IN  IF done.exc # NoExc THEN done
                 ELSE [done EXCEPT !.last_frame = <<frame>>]

\* socket.connect: refused or failing it raises OSError; on a transport that is
\* already connected the socket library decides whether it raises (EISCONN) or
\* returns
socket_connect(self, outcome) ==
    IF outcome = "ok" /\ self.socket # "closed" THEN [self EXCEPT !.socket = "open"]
    ELSE [self EXCEPT !.exc = "OSError"]

\* the status that is not a failure
SwitchingProtocols == 101

\* a greenlet running WSConstructor.start, and the collect_frames greenlet it spawns
Greenlet == [loop |-> "polling", collect |-> "running"]

\* Client.connect
connect(self, outcome, key, response, urandom) ==
    LET connecting == socket_connect([self EXCEPT !.status = "CONNECTING"], outcome)
        asked == socket_send(connecting, [kind |-> "upgrade", data |-> <<>>])
        failed == LET closed == close(asked, DefaultCode, <<>>, urandom)
                  IN  IF closed.exc # NoExc THEN closed
                      ELSE [closed EXCEPT !.exc = "HandshakeFail"]
        confirmed == confirm(key, response)
    IN  IF connecting.exc # NoExc THEN connecting
        ELSE IF asked.exc # NoExc THEN asked
        ELSE IF response.code # SwitchingProtocols THEN failed
        ELSE IF confirmed.exc # NoExc THEN [asked EXCEPT !.exc = confirmed.exc]
        ELSE IF ~confirmed.value THEN failed
        ELSE callback(trigger([asked EXCEPT !.status = "CONNECTED",
                                            !.greenlets = Append(@, Greenlet)],
                              "on_connection", <<>>),
                      "on_connection", <<>>)


(***************************************************************************)
(* The connection as a state machine                                        *)
(***************************************************************************)

\* how many frames the peer sends, and how many calls of each kind the caller makes
MaxFrames == 3
MaxConnects == 2
MaxCloses == 1
MaxSends == 1

\* the extension classes registered: one that claims nothing, one that claims bit 1
PlainExtension == Extension(FALSE, FALSE, FALSE)
Rsv1Extension == Extension(TRUE, FALSE, FALSE)
Registrations == {<<>>, <<PlainExtension, Rsv1Extension>>}

\* a value of os.urandom(4)
MaskKeys == {<<55, 250, 33, 61>>}

\* the frames the peer sends: "A" and a byte that is no UTF-8 as data, nothing, the
\* code 1000 and the code 1000 with "B" as the payload of a Close
DataPayloads == {<<65>>, <<232>>}
ClosePayloads == {<<>>, <<3, 232>>, <<3, 232, 66>>}
NoRsvs == <<0, 0, 0>>
InFrames ==
    {Frame(final, NoRsvs, opcode, payload, <<>>) :
        final \in BOOLEAN, opcode \in {"TEXT", "CONTINUATION"}, payload \in DataPayloads}
    \cup {Frame(final, NoRsvs, opcode, <<65>>, <<>>) :
        final \in BOOLEAN, opcode \in {"BINARY", "PING", "PONG"}}
    \cup {Frame(TRUE, NoRsvs, "CLOSE", payload, <<>>) : payload \in ClosePayloads}
    \cup {Frame(TRUE, <<1, 0, 0>>, "TEXT", <<65>>, <<>>),
          Frame(TRUE, NoRsvs, "None", <<65>>, <<>>)}

\* the few of them the peer sends while the caller connects and closes
FewFrames ==
    {Frame(TRUE, NoRsvs, "TEXT", <<65>>, <<>>),
     Frame(TRUE, NoRsvs, "PING", <<65>>, <<>>),
     Frame(TRUE, NoRsvs, "CLOSE", <<3, 232>>, <<>>),
     Frame(TRUE, NoRsvs, "CONTINUATION", <<65>>, <<>>)}

\* the headers of a response
Headers(upgrade, connection, accept) ==
    ("upgrade" :> upgrade) @@ ("connection" :> connection)
    @@ ("sec-websocket-accept" :> accept)

\* the response the protocol asks for to the request carrying key
Accepting(key) ==
    ServerResponse(101, Headers(STR_websocket, STR_Upgrade, expecting_key(key)))

\* the responses of the server to the request carrying key: the one the protocol
\* asks for, one with the accept value of another key, one without Upgrade, and a
\* refusal
Responses(key) ==
    {Accepting(key),
     ServerResponse(101, Headers(STR_websocket, STR_Upgrade,
                                 expecting_key(CHOOSE k \in Keys : k # key))),
     ServerResponse(101, ("connection" :> STR_Upgrade)
                         @@ ("sec-websocket-accept" :> expecting_key(key))),
     ServerResponse(400, <<>>)}

\* the connection's fields as the record the operations work on
Self ==
    [extensions |-> extensions, is_secure |-> is_secure, status |-> status,
     socket |-> socket, wire |-> wire, last_frame |-> last_frame,
     frame_setup |-> frame_setup, close_reason |-> close_reason, events |-> events,
     greenlets |-> greenlets, exc |-> NoExc]

\* the fields after an operation
Becomes(self) ==
    /\ status' = self.status
    /\ socket' = self.socket
    /\ wire' = self.wire
    /\ last_frame' = self.last_frame
    /\ frame_setup' = self.frame_setup
    /\ close_reason' = self.close_reason
    /\ events' = self.events
    /\ greenlets' = self.greenlets
    /\ UNCHANGED <<extensions, is_secure>>

\* what an operation saw when it began
Before ==
    [status |-> status, socket |-> socket, wire |-> Len(wire), events |-> Len(events),
     last_frame |-> last_frame, frame_setup |-> frame_setup,
     greenlets |-> Len(greenlets)]

\* an operation as `last` records it: the frame recv_frame was given and the
\* response connect() was given, each in a sequence that is empty for the others
Operation(op, frame, response, exc) ==
    [op |-> op, frame |-> frame, response |-> response, exc |-> exc, before |-> Before]

\* Client.__init__: the connection as constructed
Constructed(exts, secure) ==
    /\ extensions = exts
    /\ is_secure = secure
    /\ status = "CLOSED"
    /\ socket = "unconnected"
    /\ wire = <<>>
    /\ last_frame = <<>>
    /\ frame_setup = <<>>
    /\ close_reason = <<>>
    /\ events = <<>>
    /\ greenlets = <<>>
    /\ received = <<>>
    /\ calls = [connect |-> 0, close |-> 0, send |-> 0]
    /\ last = [op |-> "__init__", frame |-> <<>>, response |-> <<>>, exc |-> NoExc,
               before |-> [status |-> "CLOSED", socket |-> "unconnected", wire |-> 0,
                           events |-> 0, last_frame |-> <<>>, frame_setup |-> <<>>,
                           greenlets |-> 0]]

Idle == pc = "idle" /\ arg = <<>> /\ res = <<>>

Init ==
    /\ \E exts \in Registrations, secure \in BOOLEAN : Constructed(exts, secure)
    /\ Idle

\* connect() with the transport and the server answering as given
Connecting(outcome, key, response) ==
    /\ \E urandom \in MaskKeys :
          LET self == connect(Self, outcome, key, response, urandom)
          IN  /\ Becomes(self)
              /\ last' = Operation("connect", <<>>,
                                   <<[answered |-> self.exc \in {NoExc, "HandshakeFail"},
                                      code |-> response.code,
                                      confirm |-> confirm(key, response).value]>>,
                                   self.exc)
    /\ calls' = [calls EXCEPT !.connect = @ + 1]
    /\ UNCHANGED <<received, pureVars>>

\* the caller calls connect()
Connect ==
    /\ calls.connect < MaxConnects
    /\ \E outcome \in {"ok", "OSError"}, key \in Keys :
       \E response \in Responses(key) : Connecting(outcome, key, response)

\* the caller calls close()
CloseCall ==
    /\ calls.close < MaxCloses
    /\ \E urandom \in MaskKeys :
          LET self == close(Self, DefaultCode, <<>>, urandom)
          IN  /\ Becomes(self)
              /\ last' = Operation("close", <<>>, <<>>, self.exc)
    /\ calls' = [calls EXCEPT !.close = @ + 1]
    /\ UNCHANGED <<received, pureVars>>

\* WSConstructor.collect_frames: Frame.load returns one of `frames` and recv_frame
\* takes it; an exception recv_frame raises ends the greenlet
Collect(frames) ==
    /\ Len(received) < MaxFrames
    /\ socket = "open"
    /\ \E i \in DOMAIN greenlets, frame \in frames, urandom \in MaskKeys :
       \E contains \in IF frame.opcode \in Opcodes THEN {"True"} ELSE Containments :
          LET self == recv_frame(Self, frame, contains, urandom)
          IN  /\ greenlets[i].collect = "running"
              /\ Becomes(IF self.exc = NoExc THEN self
                         ELSE [self EXCEPT !.greenlets[i].collect = "failed"])
              /\ last' = Operation("recv_frame", <<frame>>, <<>>, self.exc)
              /\ received' = Append(received, frame)
    /\ UNCHANGED <<calls, pureVars>>

\* WSConstructor.start of greenlet i: the loop finds the status is no longer
\* CONNECTED and kills the collect_frames greenlet (which a kill leaves as it is
\* when it has ended already)
Poll(i) ==
    /\ i \in DOMAIN greenlets
    /\ greenlets[i].loop = "polling"
    /\ status # "CONNECTED"
    /\ greenlets' = [greenlets EXCEPT ![i] =
                        [loop |-> "done",
                         collect |-> IF @.collect = "running" THEN "killed"
                                     ELSE @.collect]]
    /\ last' = Operation("start", <<>>, <<>>, NoExc)
    /\ UNCHANGED <<extensions, is_secure, status, socket, wire, last_frame, frame_setup,
                   close_reason, events, received, calls, pureVars>>

Kill == \E i \in DOMAIN greenlets : Poll(i)

CollectFew == Collect(FewFrames)

Next == Connect \/ CloseCall \/ CollectFew \/ Kill

\* the connection over its whole life: the caller connects and closes, the peer
\* sends a few frames
Spec == Init /\ [][Next]_vars

\* the caller connects once and the server accepts
Established ==
    /\ calls.connect = 0
    /\ \E key \in Keys : Connecting("ok", key, Accepting(key))

CollectAny == Collect(InFrames)

NextAssembler == Established \/ CollectAny \/ Kill

\* the assembler on an established connection: the peer sends any frames
SpecAssembler == Init /\ [][NextAssembler]_vars

\* how WSConstructor.collect_frames goes on after Frame.load on this stream: with
\* the frame "delivered" to recv_frame, "ended" by the struct.error it catches, or
\* "failed" by an exception it does not catch
\* the messages the caller sends: "", "A", "\u00e9" (2 bytes), "A\u20ac" (4 bytes),
\* b"" and b"\x01\x02\x03"
Messages ==
    {PyStr(<<>>), PyStr(<<65>>), PyStr(<<233>>), PyStr(<<65, 8364>>),
     PyBytes(<<>>), PyBytes(<<1, 2, 3>>)}

\* the values of MAX_SIZE tried: the class's, and those a subclass sets to split
\* the messages modelled
SendSizes == {1, 2, MAX_SIZE}

\* the caller calls send_message(msg); arg keeps what was sent
Send ==
    /\ calls.send < MaxSends
    /\ \E msg \in Messages, size \in SendSizes, urandom \in MaskKeys :
          LET self == send_message(Self, msg, size, urandom)
          IN  /\ Becomes(self)
              /\ last' = Operation("send_message", <<>>, <<>>, self.exc)
              /\ arg' = <<[msg |-> msg, size |-> size]>>
    /\ calls' = [calls EXCEPT !.send = @ + 1]
    /\ UNCHANGED <<received, pc, res>>

\* the peer sends a Close frame
CollectClose == Collect({Frame(TRUE, NoRsvs, "CLOSE", <<3, 232>>, <<>>)})

NextSender == Connect \/ CloseCall \/ CollectClose \/ Send

\* the caller connects, closes and sends, the peer closes
SpecSender == Init /\ [][NextSender]_vars

NextSend == Established \/ Send

\* the caller connects once, the server accepts, and the caller sends
SpecSend == Init /\ [][NextSend]_vars

Decoding(stream) ==
    LET loaded == load(stream)
    IN  IF loaded.exc = NoExc THEN "delivered"
        ELSE IF loaded.exc = "struct.error" THEN "ended"
        ELSE "failed"

\* the peer drops the transport: the read of Frame.load returns no byte, and the
\* collect_frames greenlet goes on as Decoding says
EndOfStream ==
    /\ socket = "open"
    /\ \E i \in DOMAIN greenlets :
          /\ greenlets[i].collect = "running"
          /\ greenlets' = [greenlets EXCEPT ![i].collect =
                              Decoding([closed |-> FALSE, data |-> <<>>])]
    /\ last' = Operation("collect_frames", <<>>, <<>>, NoExc)
    /\ UNCHANGED <<extensions, is_secure, status, socket, wire, last_frame, frame_setup,
                   close_reason, events, received, calls, pureVars>>

NextLive == Connect \/ CloseCall \/ CollectFew \/ EndOfStream \/ Kill

\* the loop of WSConstructor.start wakes every 0.05 s: a greenlet whose loop can
\* leave does leave
Fairness == \A i \in 1..MaxConnects : WF_vars(Poll(i))

\* the connection over its whole life with its greenlets scheduled fairly
SpecLive == Init /\ [][NextLive]_vars /\ Fairness


(***************************************************************************)
(* The pure functions on their own                                          *)
(***************************************************************************)

\* an untouched connection beside the function exercised
Aside == Constructed(<<>>, FALSE)

Rest == UNCHANGED <<arg, connVars>>

\* ---- Frame.build and Frame.load ----

PayloadLengths == {0, 1, 125, 126, 65535, 65536}

\* a payload of n bytes
Payload(n) == <<>> \o [i \in 1..n |-> (i * 7) % 256]

AnyRsvs == {<<r1, r2, r3>> : r1 \in {0, 1}, r2 \in {0, 1}, r3 \in {0, 1}}

InitFrame ==
    /\ Aside
    /\ pc = "Frame"
    /\ \E final \in BOOLEAN, rsvs \in AnyRsvs, opcode \in Opcodes,
          n \in PayloadLengths, mask \in MaskKeys \cup {<<>>} :
          arg = Frame(final, rsvs, opcode, Payload(n), mask)
    /\ res = <<>>

BuildFrame ==
    /\ pc = "Frame"
    /\ pc' = "Frame.build"
    /\ res' = <<[data |-> build(arg)]>>
    /\ Rest

LoadFrame ==
    /\ pc = "Frame.build"
    /\ pc' = "Frame.load"
    /\ res' = <<load([closed |-> FALSE, data |-> res[1].data])>>
    /\ Rest

NextFrame == BuildFrame \/ LoadFrame

SpecFrame == InitFrame /\ [][NextFrame]_vars

\* ---- Frame.apply_mask ----

\* the longest content masked, over these bytes, with these keys
MaxMaskData == 5
MaskBytes == {0, 127, 255}
MaskKeyValues == {<<0, 0, 0, 0>>, <<1, 2, 3, 4>>, <<55, 250, 33, 61>>, <<255, 255, 255, 255>>}

Contents == {<<>> \o f : f \in UNION {[1..n -> MaskBytes] : n \in 0..MaxMaskData}}

InitMask ==
    /\ Aside
    /\ pc = "apply_mask"
    /\ \E mask \in MaskKeyValues, content \in Contents :
          arg = [mask |-> mask, content |-> content]
    /\ res = <<>>

MaskOnce ==
    /\ pc = "apply_mask"
    /\ pc' = "masked"
    /\ res' = <<[data |-> apply_mask(arg.mask, arg.content)]>>
    /\ Rest

MaskTwice ==
    /\ pc = "masked"
    /\ pc' = "unmasked"
    /\ res' = <<[data |-> apply_mask(arg.mask, res[1].data), masked |-> res[1].data]>>
    /\ Rest

NextMask == MaskOnce \/ MaskTwice

SpecMask == InitMask /\ [][NextMask]_vars

\* ---- Frame.load in WSConstructor.collect_frames ----

\* how many bytes of a frame the stream holds at most when it is cut short
MaxRead == 12

\* the frames the peer was sending: unmasked, masked, with the 2-byte extended
\* length, and masked without payload
DecodeFrames ==
    {Frame(TRUE, NoRsvs, "TEXT", <<65, 66>>, <<>>),
     Frame(TRUE, NoRsvs, "BINARY", Payload(5), <<55, 250, 33, 61>>),
     Frame(FALSE, NoRsvs, "TEXT", Payload(126), <<>>),
     Frame(TRUE, NoRsvs, "PING", <<>>, <<55, 250, 33, 61>>)}

\* the stream Frame.load reads: the first bytes of a frame, all of them at most,
\* on a transport that is closed or is not
InitDecode ==
    /\ Aside
    /\ pc = "collect_frames"
    /\ \E frame \in DecodeFrames, closed \in BOOLEAN :
       \E n \in 0..Min(Len(build(frame)), MaxRead) :
          arg = [stream |-> [closed |-> closed, data |-> SubSeq(build(frame), 1, n)],
                 total |-> Len(build(frame))]
    /\ res = <<>>

\* one turn of the loop of WSConstructor.collect_frames
Decode ==
    /\ pc = "collect_frames"
    /\ pc' = "decoded"
    /\ res' = <<[outcome |-> Decoding(arg.stream), loaded |-> load(arg.stream)]>>
    /\ Rest

NextDecode == Decode

SpecDecode == InitDecode /\ [][NextDecode]_vars

\* ---- Close.load ----

\* the longest payload of a Close frame tried, over these bytes
MaxClosePayload == 3
CloseBytes == {0, 3, 65, 232}

RECURSIVE BytesUpTo(_)
BytesUpTo(n) ==
    IF n = 0 THEN {<<>>}
    ELSE BytesUpTo(n - 1) \cup
         {Append(b, x) : b \in {c \in BytesUpTo(n - 1) : Len(c) = n - 1}, x \in CloseBytes}

InitClose ==
    /\ Aside
    /\ pc = "Close"
    /\ arg \in BytesUpTo(MaxClosePayload)
    /\ res = <<>>

LoadClose ==
    /\ pc = "Close"
    /\ pc' = "Close.load"
    /\ res' = <<Close(Frame(TRUE, NoRsvs, "CLOSE", arg, <<>>))>>
    /\ Rest

NextClose == LoadClose

SpecClose == InitClose /\ [][NextClose]_vars

\* ---- WebsocketUpgrade.confirm ----

\* "WebSocket", "WEBSOCKET", "websockets"
STR_WebSocket == <<87, 101, 98, 83, 111, 99, 107, 101, 116>>
STR_WEBSOCKET == <<87, 69, 66, 83, 79, 67, 75, 69, 84>>
STR_websockets == <<119, 101, 98, 115, 111, 99, 107, 101, 116, 115>>
\* "upgrade", "UPGRADE", "keep-alive"
STR_upgrade == <<117, 112, 103, 114, 97, 100, 101>>
STR_UPGRADE == <<85, 80, 71, 82, 65, 68, 69>>
STR_keep_alive == <<107, 101, 101, 112, 45, 97, 108, 105, 118, 101>>

\* an absent header
Absent == <<>>

UpgradeValues == {Absent, STR_websocket, STR_WebSocket, STR_WEBSOCKET, STR_websockets}
ConnectionValues == {Absent, STR_Upgrade, STR_upgrade, STR_UPGRADE, STR_keep_alive}
AcceptValues == {Absent, ACCEPT_1, ACCEPT_2, lower(ACCEPT_1)}

\* the headers among the three that are present
SomeHeaders(upgrade, connection, accept) ==
    LET all == Headers(upgrade, connection, accept)
    IN  [n \in {m \in DOMAIN all : all[m] # Absent} |-> all[n]]

InitConfirm ==
    /\ Aside
    /\ pc = "confirm"
    /\ \E key \in Keys, upgrade \in UpgradeValues, connection \in ConnectionValues,
          accept \in AcceptValues :
          arg = [key |-> key,
                 response |-> ServerResponse(101, SomeHeaders(upgrade, connection, accept))]
    /\ res = <<>>

Confirm ==
    /\ pc = "confirm"
    /\ pc' = "confirmed"
    /\ res' = <<confirm(arg.key, arg.response)>>
    /\ Rest

NextConfirm == Confirm

SpecConfirm == InitConfirm /\ [][NextConfirm]_vars


(***************************************************************************)
(* What the claims speak of                                                 *)
(***************************************************************************)

\* the frames written to the transport, decoded again
Written(i) == load([closed |-> FALSE, data |-> wire[i].data])

IsCloseFrame(i) ==
    /\ wire[i].kind = "frame"
    /\ Written(i).exc = NoExc
    /\ Written(i).frame[1].opcode = "CLOSE"

\* the Close frame written carries this code and this reason
CloseFrameWith(i, code, reason) ==
    /\ IsCloseFrame(i)
    /\ Written(i).frame[1].payload = pack("!H", code) \o utf8_encode(reason)

\* the callbacks the assembler dispatches a frame to
Dispatches == {"on_message", "on_ping", "on_pong", "on_close"}

\* the events of the last operation
NewEvents == {i \in DOMAIN events : i > last.before.events}

LastWrote == Len(wire) - last.before.wire

\* extension k claims reserved bit i (1, 2 or 3)
Claims(k, i) == <<extensions[k].RSV1, extensions[k].RSV2, extensions[k].RSV3>>[i]

\* ---------------------------------------------------------------- C1
\* C1: when the first three frames received are a Text frame with final clear, a
\* Continuation with final clear and a Continuation with final set, none with a
\* reserved bit, carrying text, then exactly one Message has been dispatched to
\* the connection and to every extension, it is Text and holds the three payloads
\* in order, nothing was closed and no Close event was dispatched.
C1_Fragments ==
    /\ Len(received) = 3
    /\ last.op = "recv_frame"
    /\ received[1].opcode = "TEXT" /\ ~received[1].final
    /\ received[2].opcode = "CONTINUATION" /\ ~received[2].final
    /\ received[3].opcode = "CONTINUATION" /\ received[3].final
    /\ \A i \in 1..3 : received[i].rsvs = NoRsvs
    /\ utf8_decode(join(received)).exc = NoExc

C1_Reassembles ==
    C1_Fragments =>
        /\ \A who \in 0..Len(extensions) :
              /\ Cardinality({i \in DOMAIN events :
                                events[i].name = "on_message" /\ events[i].who = who}) = 1
              /\ \A i \in DOMAIN events :
                    events[i].name = "on_message" /\ events[i].who = who =>
                        /\ events[i].arg[1].data_type = "str"
                        /\ events[i].arg[1].data = PyStr(utf8_decode(join(received)).value)
        /\ \A i \in DOMAIN events : events[i].name # "on_close"
        /\ \A i \in DOMAIN wire : wire[i].kind # "frame"
        /\ status = "CONNECTED"

\* ---------------------------------------------------------------- C2
\* C2: a Continuation frame that arrives first, or after a Ping, Pong or Close, or
\* after a frame with final set, is dispatched to no callback; the assembler closes
\* with 1002 and the reason of the violation: one Close frame carrying them is
\* written, the status is Closing and no exception leaves the read loop.
C2_Misplaced ==
    /\ last.op = "recv_frame"
    /\ last.frame[1].opcode = "CONTINUATION"
    /\ \/ last.before.last_frame = <<>>
       \/ /\ last.before.last_frame # <<>>
          /\ \/ last.before.last_frame[1].opcode \in {"PING", "PONG", "CLOSE"}
             \/ last.before.last_frame[1].final

C2_Reason ==
    IF last.before.last_frame = <<>> THEN REASON_no_initial
    ELSE IF last.before.last_frame[1].opcode \in {"PING", "PONG", "CLOSE"}
         THEN REASON_fragmented
         ELSE REASON_after_final

C2_ContinuationRejected ==
    C2_Misplaced =>
        /\ \A i \in NewEvents : events[i].name \notin Dispatches
        /\ LastWrote = 1
        /\ CloseFrameWith(Len(wire), 1002, C2_Reason)
        /\ status = "CLOSING"
        /\ last.exc = NoExc
        /\ \A g \in DOMAIN greenlets : greenlets[g].collect # "failed"

\* a Continuation after a Ping was closed on, and so was one after a final Text
\* frame, and so was one that came first
C2_Witness ==
    /\ C2_Misplaced
    /\ last.before.last_frame # <<>>
    /\ last.before.last_frame[1].opcode = "PING"
    /\ CloseFrameWith(Len(wire), 1002, REASON_fragmented)
    /\ status = "CLOSING"

\* ---------------------------------------------------------------- C3
\* C3: a frame that is valid but for one reserved bit i it has set is rejected with
\* 1002 exactly when no registered extension claims bit i, wherever in the
\* registration order the extension that claims it stands.
C3_OneBit ==
    /\ last.op = "recv_frame"
    /\ last.frame[1].opcode \in Opcodes
    /\ sequence_reason([last_frame |-> last.before.last_frame], last.frame[1]) = <<>>
    /\ Cardinality({i \in 1..3 : last.frame[1].rsvs[i] = 1}) = 1

C3_Rejected ==
    /\ LastWrote = 1
    /\ IsCloseFrame(Len(wire))
    /\ SubSeq(Written(Len(wire)).frame[1].payload, 1, 2) = pack("!H", 1002)

C3_ReservedBits ==
    C3_OneBit =>
        LET i == CHOOSE b \in 1..3 : last.frame[1].rsvs[b] = 1
        IN  C3_Rejected <=> ~(\E k \in DOMAIN extensions : Claims(k, i))

\* ---------------------------------------------------------------- C4
\* C4: Frame.load of the bytes of f.build() gives back f's final bit, reserved
\* bits, opcode and payload, and leaves nothing of the bytes unread.
C4_RoundTrip ==
    pc = "Frame.load" =>
        /\ res[1].exc = NoExc
        /\ res[1].frame[1].final = arg.final
        /\ res[1].frame[1].rsvs = arg.rsvs
        /\ res[1].frame[1].opcode = arg.opcode
        /\ res[1].frame[1].payload = arg.payload
        /\ res[1].stream.data = <<>>

\* ---------------------------------------------------------------- C5
\* C5: an empty Close payload gives neither code nor reason; two bytes give the
\* code, their big-endian value, and no reason; more give the code of the first two
\* and the reason, the UTF-8 decoding of the rest.
C5_CloseParsed ==
    pc = "Close.load" =>
        LET code == PyInt(FromBigEndian(SubSeq(arg, 1, 2)))
            rest == utf8_decode(SubSeq(arg, 3, Len(arg)))
        IN  /\ Len(arg) = 0 => res[1].exc = NoExc /\ res[1].code = PyNone /\ res[1].reason = PyNone
            /\ Len(arg) = 2 =>
                  /\ res[1].exc = NoExc
                  /\ res[1].code.type = "int" /\ res[1].code = code
                  /\ res[1].reason = PyNone
            /\ Len(arg) > 2 /\ rest.exc = NoExc =>
                  /\ res[1].exc = NoExc
                  /\ res[1].code.type = "int" /\ res[1].code = code
                  /\ res[1].reason = PyStr(rest.value)

\* ---------------------------------------------------------------- C6
\* C6: confirm returns true exactly when Upgrade is "websocket" whatever its case,
\* Connection is "Upgrade" whatever its case, and Sec-WebSocket-Accept is exactly
\* the accept value of the connection's key; otherwise it returns false; it never
\* raises.
SameButCase(a, b) ==
    /\ Len(a) = Len(b)
    /\ \A i \in 1..Len(a) : LowerCp(a[i]) = LowerCp(b[i])

C6_Given(name) == name \in DOMAIN arg.response.headers

C6_Matches ==
    /\ C6_Given("upgrade")
    /\ SameButCase(arg.response.headers["upgrade"], STR_websocket)
    /\ C6_Given("connection")
    /\ SameButCase(arg.response.headers["connection"], STR_Upgrade)
    /\ C6_Given("sec-websocket-accept")
    /\ arg.response.headers["sec-websocket-accept"]
         = (IF arg.key = KEY_1 THEN ACCEPT_1 ELSE ACCEPT_2)

C6_Confirm ==
    pc = "confirmed" => res[1].exc = NoExc /\ (res[1].value <=> C6_Matches)

\* the headers were accepted in another case than the code spells them in
C6_Witness ==
    /\ pc = "confirmed"
    /\ res[1].value
    /\ arg.response.headers["upgrade"] = STR_WEBSOCKET
    /\ arg.response.headers["connection"] = STR_upgrade

\* ---------------------------------------------------------------- C7
\* C7: close() on a connection whose status is Closed fails with AlreadyClosed,
\* writes nothing and leaves the status Closed.
C7_CloseOnClosed ==
    last.op = "close" /\ last.before.status = "CLOSED" =>
        /\ last.exc = "AlreadyClosed"
        /\ LastWrote = 0
        /\ status = "CLOSED"

\* ---------------------------------------------------------------- C8
\* C8: connect() on a connection whose status is Connecting, Connected or Closing
\* is rejected: it fails, sends no handshake request and leaves the status as it
\* was.
C8_ConnectOnce ==
    last.op = "connect" /\ last.before.status # "CLOSED" =>
        /\ last.exc # NoExc
        /\ LastWrote = 0
        /\ status = last.before.status

\* ---------------------------------------------------------------- C9
\* C9: when the server answers with another status than 101, or with 101 and
\* headers that fail verification, connect() fails with HandshakeFail, the
\* transport is closed, the status is still the Connecting it was when the failure
\* was seen, no read loop was started and on_connection was fired on nobody.
C9_HandshakeFails ==
    /\ last.op = "connect"
    /\ last.response[1].answered
    /\ last.response[1].code # 101 \/ ~last.response[1].confirm
    =>
        /\ last.exc = "HandshakeFail"
        /\ socket = "closed"
        /\ status = "CONNECTING"
        /\ Len(greenlets) = last.before.greenlets
        /\ \A i \in NewEvents : events[i].name # "on_connection"

\* ---------------------------------------------------------------- C10
\* C10: close() on a Connecting or Closing connection closes the transport, writes
\* nothing and does not raise; only on a Connected one does it write a Close frame
\* and make the status Closing.
C10_CloseByStatus ==
    last.op = "close" =>
        /\ last.before.status \in {"CONNECTING", "CLOSING"} =>
              /\ socket = "closed"
              /\ LastWrote = 0
              /\ last.exc = NoExc
        /\ last.before.status = "CONNECTED" =>
              /\ LastWrote = 1
              /\ IsCloseFrame(Len(wire))
              /\ status = "CLOSING"
        /\ last.before.status # "CONNECTED" =>
              /\ LastWrote = 0
              /\ status = last.before.status

\* ---------------------------------------------------------------- C11
\* C11: whenever the read loop accepts a Close frame on a Connected connection, the
\* connection records that Close as its close reason, the status becomes Closing
\* and an acknowledging Close frame is written; and the transport is eventually
\* closed.
C11_CloseAccepted ==
    /\ last.op = "recv_frame"
    /\ last.frame[1].opcode = "CLOSE"
    /\ last.before.status = "CONNECTED"
    /\ verify([last_frame |-> last.before.last_frame, extensions |-> extensions],
              last.frame[1], "True").good

C11_Acknowledged ==
    /\ last.exc = NoExc
    /\ close_reason # <<>>
    /\ close_reason[1].raw_data = last.frame[1].payload
    /\ status = "CLOSING"
    /\ LastWrote = 1
    /\ IsCloseFrame(Len(wire))

C11_CloseTearsDown ==
    /\ [](C11_CloseAccepted => C11_Acknowledged)
    /\ (C11_CloseAccepted ~> socket = "closed")

\* ---------------------------------------------------------------- C12
\* C12: send_message on a connection whose status is Closed, Connecting or Closing
\* fails with NotConnected and writes nothing to the transport.
C12_SendWhenConnected ==
    last.op = "send_message" /\ last.before.status # "CONNECTED" =>
        /\ last.exc = "NotConnected"
        /\ LastWrote = 0

\* ---------------------------------------------------------------- C13
\* C13: the frames one send_message call that returned has written, in the order
\* written, have payloads of at most MAX_SIZE bytes each whose concatenation is
\* the payload (UTF-8 encoded for a str); each is Text for a str and Binary for
\* bytes; the last one written has final set and no other has.
C13_Sent == last.op = "send_message" /\ last.exc = NoExc

C13_Frames == [i \in 1..LastWrote |-> Written(last.before.wire + i)]

C13_Encoded ==
    IF arg[1].msg.type = "str" THEN utf8_encode(arg[1].msg.value) ELSE arg[1].msg.value

C13_Chunked ==
    C13_Sent =>
        /\ \A i \in 1..LastWrote :
              /\ wire[last.before.wire + i].kind = "frame"
              /\ C13_Frames[i].exc = NoExc
              /\ C13_Frames[i].stream.data = <<>>
              /\ Len(C13_Frames[i].frame[1].payload) <= arg[1].size
              /\ C13_Frames[i].frame[1].opcode
                    = (IF arg[1].msg.type = "str" THEN "TEXT" ELSE "BINARY")
              /\ C13_Frames[i].frame[1].final <=> i = LastWrote
        /\ join([i \in 1..LastWrote |-> C13_Frames[i].frame[1]]) = C13_Encoded

\* "A\u20ac" went out as two Text frames of two bytes, the second one final
C13_Witness ==
    /\ C13_Sent
    /\ arg[1].msg = PyStr(<<65, 8364>>)
    /\ arg[1].size = 2
    /\ LastWrote = 2
    /\ C13_Frames[1].frame[1].payload = <<65, 226>>
    /\ ~C13_Frames[1].frame[1].final
    /\ C13_Frames[2].frame[1].final

\* ---------------------------------------------------------------- C14
\* C14: when decoding signals the end of the stream while the status is still
\* Connected, the read loop ends and the greenlet run_forever joins, the one
\* running WSConstructor.start, eventually completes.
C14_Dropped(i) ==
    /\ i \in DOMAIN greenlets
    /\ greenlets[i].collect = "ended"
    /\ status = "CONNECTED"

C14_Joined(i) ==
    /\ i \in DOMAIN greenlets
    /\ greenlets[i].loop = "done"

C14_RunForeverReturns ==
    /\ [](last.op = "collect_frames" =>
             \E i \in DOMAIN greenlets : greenlets[i].collect = "ended")
    /\ \A i \in 1..MaxConnects : C14_Dropped(i) ~> C14_Joined(i)

\* ---------------------------------------------------------------- C15
\* C15: apply_mask(key, apply_mask(key, data)) is data, and what apply_mask
\* returns is as long as what it was given.
C15_Involution ==
    /\ pc \in {"masked", "unmasked"} => Len(res[1].data) = Len(arg.content)
    /\ pc = "unmasked" => res[1].data = arg.content

\* five bytes, no multiple of 4, were changed by the key and came back
C15_Witness ==
    /\ pc = "unmasked"
    /\ Len(arg.content) = 5
    /\ res[1].masked[5] # arg.content[5]
    /\ res[1].data = arg.content

\* ---------------------------------------------------------------- C16
\* C16: once a final data frame has completed a message the pending buffer is
\* empty; so a final data frame that follows a completed message is a message of
\* its own: the Message dispatched holds its payload alone and is Text or Binary
\* as this frame is.
C16_Accepted ==
    /\ last.op = "recv_frame"
    /\ last.exc = NoExc
    /\ verify([last_frame |-> last.before.last_frame, extensions |-> extensions],
              last.frame[1], "True").good

C16_Completes ==
    /\ C16_Accepted
    /\ last.frame[1].opcode \in {"TEXT", "BINARY"}
    /\ last.frame[1].final

C16_AfterComplete ==
    /\ C16_Completes
    /\ last.before.last_frame # <<>>
    /\ last.before.last_frame[1].opcode \in {"TEXT", "BINARY"}
    /\ last.before.last_frame[1].final

C16_BufferCleared ==
    /\ C16_Completes => frame_setup = <<>>
    /\ C16_AfterComplete =>
          \A i \in NewEvents :
              events[i].name = "on_message" =>
                  /\ events[i].arg[1].data.value
                        = (IF last.frame[1].opcode = "TEXT"
                           THEN utf8_decode(last.frame[1].payload).value
                           ELSE last.frame[1].payload)
                  /\ events[i].arg[1].data_type
                        = (IF last.frame[1].opcode = "TEXT" THEN "str" ELSE "bytes")

\* ---------------------------------------------------------------- C17
\* C17: when the transport is closed, or the stream ends before the frame does,
\* wherever in the frame, the decode delivers no frame to the assembler and the read
\* loop ends normally: no exception leaves it.
C17_CutShort == arg.stream.closed \/ Len(arg.stream.data) < arg.total

C17_EndsLoop ==
    pc = "decoded" /\ C17_CutShort =>
        /\ res[1].outcome = "ended"
        /\ res[1].loaded.frame = <<>>

\* ---------------------------------------------------------------- C18
\* C18: once the read loop is started, whenever the status is no longer Connected
\* the loop of WSConstructor.start eventually kills the read greenlet and
\* completes; and once no read greenlet is running no further frame is decoded
\* or dispatched.
C18_ToCancel(i) ==
    /\ i \in DOMAIN greenlets
    /\ greenlets[i].loop = "polling"
    /\ status # "CONNECTED"

C18_Cancelled(i) ==
    /\ i \in DOMAIN greenlets
    /\ greenlets[i].loop = "done"
    /\ greenlets[i].collect # "running"

C18_Quiet ==
    (\A i \in DOMAIN greenlets : greenlets[i].collect # "running")
    => /\ received' = received
       /\ \A j \in DOMAIN events' : j > Len(events) => events'[j].name \notin Dispatches

C18_MonitorCancels ==
    /\ [][C18_Quiet]_vars
    /\ \A i \in 1..MaxConnects : C18_ToCancel(i) ~> C18_Cancelled(i)

\* ---------------------------------------------------------------- C19
\* C19: after a frame that passes verify, whatever its type, last_frame is that
\* frame; after a frame verify rejects, last_frame and the pending buffer are as
\* they were and none of on_message, on_ping, on_pong, on_close was invoked for it.
C19_Verified ==
    verify([last_frame |-> last.before.last_frame, extensions |-> extensions],
           last.frame[1], "True").good

C19_LastFrame ==
    last.op = "recv_frame" /\ last.frame[1].opcode \in Opcodes =>
        IF C19_Verified
        THEN last_frame = last.frame
        ELSE /\ last_frame = last.before.last_frame
             /\ frame_setup = last.before.frame_setup
             /\ \A i \in NewEvents : events[i].name \notin Dispatches

\* ---------------------------------------------------------------- C20
\* C20: however local close() calls, the assembler's closes and the Close frames
\* of the peer interleave, the client writes at most one Close frame, and writes
\* nothing once the transport is closed.
C20_CloseFrames == {i \in DOMAIN wire : IsCloseFrame(i)}

C20_SilentOnceClosed == socket = "closed" => wire' = wire

C20_OneClose ==
    /\ [](Cardinality(C20_CloseFrames) <= 1)
    /\ [][C20_SilentOnceClosed]_vars

====
